---- MODULE Spec2Model ----
(***************************************************************************)
(* Model of gipo's encrypted backup package (package backup): Backup and   *)
(* Restore, the container layout they write and read, the tar walk and the *)
(* unpack loop, over a small filesystem.                                   *)
(*                                                                         *)
(* Bytes are records.  A plain byte carries its value v in 0..255.  A      *)
(* sealed byte is byte idx of an output of XChaCha20-Poly1305's Seal; the   *)
(* variable seals lists the (key, nonce, plaintext) of every output, and   *)
(* the byte's v is the difference to the value Seal produced (0:           *)
(* untouched).  Open accepts exactly the outputs of Seal under the same    *)
(* key and nonce (the AEAD is taken to be unforgeable, scrypt to be        *)
(* collision free).  crypto/rand is taken never to return the same salt or *)
(* the same nonce twice: the variable drawn holds what it has returned.    *)
(*                                                                         *)
(* The module also models package sshconfig (the managed blocks of the ssh *)
(* config file) and the profiles of keys.json (LoadProfiles and the alias  *)
(* table of PreviewSSHConfig).  There a text is a sequence of pieces: a    *)
(* fixed string of the file format, or one character of a name.            *)
(***************************************************************************)
EXTENDS Integers, Sequences, FiniteSets, TLC

----------------------------------------------------------------------------
(* Bounds of the model *)

\* rand.Read yields one of MaxRand distinct outcomes per call
MaxRand == 2
\* time.Now().Unix() yields one of MaxClock instants
MaxClock == 1
\* the calls of package sshconfig on one config file
MaxCalls == 3

----------------------------------------------------------------------------
(* Program constants *)

saltLen == 16
nonceLen == 24
version == 1
\* "GPBK"
magic == <<71, 80, 66, 75>>
\* chacha20poly1305.Overhead: the Poly1305 tag Seal appends
Overhead == 16
\* the fixed header Restore requires: magic, version, salt, nonce, timestamp, length
HeaderLen == 4 + 1 + saltLen + nonceLen + 8 + 8
\* the value ScryptN is declared with (1 << 15)
DefaultScryptN == 32768
ScryptR == 8
ScryptP == 1
KeyLen == 32

\* the values returned as errors
NoErr == "nil"
ErrBadFormat == "bad backup format"
ErrUnsupportedVersion == "unsupported version"
ErrOpen == "chacha20poly1305: message authentication failed"
ErrScrypt == "scrypt: N must be > 1 and a power of 2"
ErrNotExist == "no such file or directory"
ErrIO == "input/output error"
ErrRand == "rand: read failed"
ErrNotDir == "not a directory"
ErrIsDir == "is a directory"
ErrAccess == "permission denied"
ErrGzip == "gzip: invalid header"
ErrRequired == "algo, name and email are required"

----------------------------------------------------------------------------
(* Bytes and integers *)

Plain(v) == [kind |-> "plain", v |-> v, id |-> 0, idx |-> 0]

\* byte idx of the id-th output of Seal, changed by d (d = 0: as Seal wrote it)
Sealed(id, idx, d) == [kind |-> "sealed", v |-> d, id |-> id, idx |-> idx]

PlainSeq(vs) == [i \in 1..Len(vs) |-> Plain(vs[i])]

\* binary.BigEndian.PutUint64 of a value below 2^31
PutUint64(n) ==
  <<0, 0, 0, 0, (n \div 16777216) % 256, (n \div 65536) % 256, (n \div 256) % 256, n % 256>>

\* the bit pattern of a Go int of w bytes holding n (0 <= n < 2^31)
IntPattern(n, w) == SubSeq(PlainSeq(PutUint64(n)), 9 - w, 8)

\* int(x) for the uint64 whose big-endian bytes are u: the conversion keeps the
\* low w bytes, and two ints are equal exactly when their bit patterns are
IntOfUint64(u, w) == SubSeq(u, 9 - w, 8)

RECURSIVE AndNot(_, _)
\* m &^ u on permission bits
AndNot(m, u) ==
  IF m = 0 THEN 0
  ELSE (IF m % 2 = 1 /\ u % 2 = 0 THEN 1 ELSE 0) + 2 * AndNot(m \div 2, u \div 2)

RECURSIVE IsPow2(_)
IsPow2(n) == IF n = 1 THEN TRUE ELSE IF n < 1 \/ n % 2 = 1 THEN FALSE ELSE IsPow2(n \div 2)

IsPrefix(s, t) == Len(s) <= Len(t) /\ SubSeq(t, 1, Len(s)) = s
IsProperPrefix(s, t) == Len(s) < Len(t) /\ SubSeq(t, 1, Len(s)) = s

Values(bs) == [i \in 1..Len(bs) |-> bs[i].v]

----------------------------------------------------------------------------
(* Paths and the filesystem.  A path is the sequence of its segments, from  *)
(* the root; fs maps every existing path to its node.                       *)

RECURSIVE CleanFrom(_, _)
CleanFrom(stack, segs) ==
  IF segs = <<>> THEN stack
  ELSE LET s == Head(segs) IN
       IF s = "" \/ s = "." THEN CleanFrom(stack, Tail(segs))
       ELSE IF s = ".."
         THEN CleanFrom(IF stack = <<>> THEN <<>> ELSE SubSeq(stack, 1, Len(stack) - 1),
                        Tail(segs))
         ELSE CleanFrom(Append(stack, s), Tail(segs))

\* filepath.Join(dir, name) for a rooted dir: the segments joined, then Clean
\* ("" and "." dropped, ".." removing the segment before it, nothing above the root)
Join(dir, name) == CleanFrom(<<>>, dir \o name)

\* filepath.Dir of a cleaned rooted path
Dir(path) == IF path = <<>> THEN <<>> ELSE SubSeq(path, 1, Len(path) - 1)

Within(path, dir) == IsPrefix(dir, path)

DirNode(mode) == [type |-> "dir", mode |-> mode, data |-> ""]
FileNode(mode, data) == [type |-> "file", mode |-> mode, data |-> data]

Exists(f, path) == path = <<>> \/ path \in DOMAIN f
IsDir(f, path) == path = <<>> \/ (path \in DOMAIN f /\ f[path].type = "dir")

Prefixes(path) == {SubSeq(path, 1, n) : n \in 1..Len(path)}

\* os.MkdirAll(path, perm): every missing directory of path is created with
\* perm &^ umask; a directory that exists is left as it is; a file on the way is
\* an error
MkdirAll(f, path, perm, mask) ==
  IF \E q \in Prefixes(path) : Exists(f, q) /\ ~IsDir(f, q)
  THEN [err |-> ErrNotDir, fs |-> f]
  ELSE [err |-> NoErr,
        fs |-> [q \in DOMAIN f \cup Prefixes(path) |->
                 IF q \in DOMAIN f THEN f[q] ELSE DirNode(AndNot(perm, mask))]]

OwnerWrite(mode) == (mode \div 128) % 2 = 1

\* os.OpenFile(path, O_CREATE|O_WRONLY|O_TRUNC, perm), io.Copy of data, Close:
\* a new file gets perm &^ umask, an existing file keeps its mode and is
\* truncated
WriteFile(f, path, perm, mask, data) ==
  IF ~IsDir(f, Dir(path)) THEN [err |-> ErrNotExist, fs |-> f]
  ELSE IF path = <<>> \/ IsDir(f, path) THEN [err |-> ErrIsDir, fs |-> f]
  ELSE IF path \in DOMAIN f
    THEN IF ~OwnerWrite(f[path].mode) THEN [err |-> ErrAccess, fs |-> f]
         ELSE [err |-> NoErr, fs |-> [f EXCEPT ![path] = FileNode(f[path].mode, data)]]
    ELSE [err |-> NoErr,
          fs |-> [q \in DOMAIN f \cup {path} |->
                   IF q = path THEN FileNode(AndNot(perm, mask), data) ELSE f[q]]]

\* the tree below dir, by relative path
Subtree(f, dir) ==
  LET below == {q \in DOMAIN f : Within(q, dir) /\ q # dir} IN
  [rel \in {SubSeq(q, Len(dir) + 1, Len(q)) : q \in below} |-> f[dir \o rel]]

----------------------------------------------------------------------------
(* The inputs *)

Oct(a, b, c) == a * 64 + b * 8 + c

Passphrases == {"p1", "p2"}
\* the values a caller sets ScryptN to (the last one is no power of two)
ScryptNs == {DefaultScryptN, 16384, 1000}
\* the process umask
Umasks == {0, Oct(0, 2, 2)}
\* the bytes of a Go int: 8 on a 64-bit build, 4 on a 32-bit build
IntSizes == {8, 4}
Rands == 1..MaxRand
Clocks == 1..MaxClock

NoTree == <<>>
KeysTree == (<<"keys">> :> DirNode(Oct(7, 0, 0)))
KeyTree == (<<"keys">> :> DirNode(Oct(7, 0, 0))) @@
           (<<"keys", "id">> :> FileNode(Oct(6, 0, 0), "priv"))
PubTree == (<<"pub">> :> FileNode(Oct(6, 4, 4), "pub"))
MixedTree == (<<"d">> :> DirNode(Oct(7, 5, 5))) @@
             (<<"d", "pub">> :> FileNode(Oct(6, 4, 4), "pub")) @@
             (<<"x">> :> FileNode(Oct(6, 6, 6), "x"))

\* the directory trees Backup is run on
Trees == {NoTree, KeysTree, KeyTree, PubTree, MixedTree}

baseDir == <<"base">>
destDir == <<"dest">>

----------------------------------------------------------------------------
(* The archive *)

\* tar.FileInfoHeader(info, "") with hdr.Name = rel
Header(rel, node) ==
  [name |-> rel,
   typeflag |-> IF node.type = "dir" THEN "TypeDir" ELSE "TypeReg",
   mode |-> node.mode,
   data |-> node.data]

\* the orders filepath.Walk may visit the entries in: a directory before what
\* is below it
WalkOrders(tree) ==
  LET n == Cardinality(DOMAIN tree) IN
  {o \in [1..n -> DOMAIN tree] :
     /\ \A i, j \in 1..n : i # j => o[i] # o[j]
     /\ \A i, j \in 1..n : i < j => ~IsProperPrefix(o[j], o[i])}

\* createTarGzip: the gzipped tar of the entries in walk order, the root skipped
createTarGzip(tree, order) ==
  [gz |-> TRUE, entries |-> [i \in 1..Len(order) |-> Header(order[i], tree[order[i]])]]

\* the length of the gzipped tar bytes, scaled down: one unit for the stream
\* and one per entry
PayloadLen(pt) == 1 + Len(pt.entries)

----------------------------------------------------------------------------
(* Key derivation and the AEAD *)

NoKey == [pass |-> "", salt |-> <<>>, N |-> 0, r |-> 0, p |-> 0, len |-> 0]

\* scrypt.Key(pass, salt, N, ScryptR, ScryptP, KeyLen)
scryptKey(pass, salt, N) ==
  IF N <= 1 \/ ~IsPow2(N)
  THEN [err |-> ErrScrypt, key |-> NoKey]
  ELSE [err |-> NoErr,
        key |-> [pass |-> pass, salt |-> Values(salt), N |-> N,
                 r |-> ScryptR, p |-> ScryptP, len |-> KeyLen]]

\* the index in tbl of Seal's output for (key, nonce, pt): the one already
\* there, or the next
SealId(tbl, key, nonce, pt) ==
  LET e == [key |-> key, nonce |-> Values(nonce), pt |-> pt] IN
  IF \E i \in DOMAIN tbl : tbl[i] = e
  THEN CHOOSE i \in DOMAIN tbl : tbl[i] = e
  ELSE Len(tbl) + 1

SealTable(tbl, key, nonce, pt) ==
  LET e == [key |-> key, nonce |-> Values(nonce), pt |-> pt] IN
  IF \E i \in DOMAIN tbl : tbl[i] = e THEN tbl ELSE Append(tbl, e)

\* aead.Seal(nil, nonce, payload, nil): the encrypted payload and the tag
Seal(tbl, key, nonce, pt) ==
  [i \in 1..(PayloadLen(pt) + Overhead) |-> Sealed(SealId(tbl, key, nonce, pt), i, 0)]

\* Open decrypting without verifying: a changed byte goes unnoticed
Open_Unverified(tbl, key, nonce, ct) ==
  LET ids == {i \in DOMAIN tbl :
                /\ tbl[i].key = key
                /\ tbl[i].nonce = Values(nonce)
                /\ Len(ct) = PayloadLen(tbl[i].pt) + Overhead
                /\ \A j \in 1..Len(ct) : ct[j].kind = "sealed" /\ ct[j].id = i /\ ct[j].idx = j}
  IN IF ids = {} THEN [err |-> ErrOpen, pt |-> [gz |-> FALSE, entries |-> <<>>]]
     ELSE [err |-> NoErr, pt |-> tbl[CHOOSE i \in ids : TRUE].pt]

\* aead.Open(nil, nonce, ciphertext, nil): the payload when ciphertext is an
\* untouched output of Seal under this key and nonce, else the one error
Open(tbl, key, nonce, ct) ==
  LET ids == {i \in DOMAIN tbl :
                /\ tbl[i].key = key
                /\ tbl[i].nonce = Values(nonce)
                /\ ct = [j \in 1..(PayloadLen(tbl[i].pt) + Overhead) |-> Sealed(i, j, 0)]}
  IN IF ids = {} THEN [err |-> ErrOpen, pt |-> [gz |-> FALSE, entries |-> <<>>]]
     ELSE [err |-> NoErr, pt |-> tbl[CHOOSE i \in ids : TRUE].pt]

----------------------------------------------------------------------------
(* The container *)

\* the bytes rand.Read fills a buffer of n bytes with, for outcome r
RandBytes(n, r) == [i \in 1..n |-> Plain((r * 16 + i) % 256)]

\* time.Now().Unix() at instant c
UnixTime(c) == 1700000000 + c

\* what Backup writes, one element per f.Write: magic(4), version(1), salt(16),
\* nonce(24), timestamp(8), len(ciphertext 8), ciphertext
Chunks(salt, nonce, ts, ct) ==
  << PlainSeq(magic), PlainSeq(<<version>>), salt, nonce,
     PlainSeq(PutUint64(ts)), PlainSeq(PutUint64(Len(ct))), ct >>

Container(salt, nonce, ts, ct) ==
  LET c == Chunks(salt, nonce, ts, ct) IN
  c[1] \o c[2] \o c[3] \o c[4] \o c[5] \o c[6] \o c[7]

DecodeFail(e) == [err |-> e, salt |-> <<>>, nonce |-> <<>>, ciphertext |-> <<>>]
DecodePanic == DecodeFail("panic: slice bounds out of range")

\* the parse without the comparison of the declared length
DecodeHeader_AnyLength(b, w) ==
  IF Len(b) < 4 THEN DecodePanic
  ELSE IF SubSeq(b, 1, 4) # PlainSeq(magic) THEN DecodeFail(ErrBadFormat)
  ELSE IF Len(b) < 5 THEN DecodePanic
  ELSE IF b[5] # Plain(version) THEN DecodeFail(ErrUnsupportedVersion)
  ELSE IF Len(b) < HeaderLen THEN DecodePanic
  ELSE [err |-> NoErr,
        salt |-> SubSeq(b, 5 + 1, 5 + saltLen),
        nonce |-> SubSeq(b, 5 + saltLen + 1, 5 + saltLen + nonceLen),
        ciphertext |-> SubSeq(b, HeaderLen + 1, Len(b))]

\* Restore's parse of the header once the length was checked; w is the size
\* of int.  A slice or an index past len(b) panics.
DecodeHeader(b, w) ==
  IF Len(b) < 4 THEN DecodePanic
  ELSE IF SubSeq(b, 1, 4) # PlainSeq(magic) THEN DecodeFail(ErrBadFormat)
  ELSE IF Len(b) < 5 THEN DecodePanic
  ELSE IF b[5] # Plain(version) THEN DecodeFail(ErrUnsupportedVersion)
  ELSE IF Len(b) < HeaderLen THEN DecodePanic
  ELSE LET off == 4 + 1 + saltLen + nonceLen + 8
           cLen == SubSeq(b, off + 1, off + 8)
       IN IF IntOfUint64(cLen, w) # IntPattern(Len(b) - (off + 8), w)
          THEN DecodeFail(ErrBadFormat)
          ELSE [err |-> NoErr,
                salt |-> SubSeq(b, 5 + 1, 5 + saltLen),
                nonce |-> SubSeq(b, 5 + saltLen + 1, 5 + saltLen + nonceLen),
                ciphertext |-> SubSeq(b, off + 8 + 1, Len(b))]

\* Restore without the check of len(b) against the fixed header
Decode_NoLengthCheck(b, w) == DecodeHeader(b, w)

\* Restore rejecting a timestamp field that holds no instant of the clock
Decode_TimestampRead(b, w) ==
  IF Len(b) < 4 + 1 + saltLen + nonceLen + 8 + 8 THEN DecodeFail(ErrBadFormat)
  ELSE IF SubSeq(b, 4 + 1 + saltLen + nonceLen + 1, 4 + 1 + saltLen + nonceLen + 8)
            \notin {PlainSeq(PutUint64(UnixTime(c))) : c \in Clocks}
  THEN DecodeFail(ErrBadFormat)
  ELSE DecodeHeader(b, w)

\* Restore, from the length check to the ciphertext
Decode(b, w) ==
  IF Len(b) < 4 + 1 + saltLen + nonceLen + 8 + 8 THEN DecodeFail(ErrBadFormat)
  ELSE DecodeHeader(b, w)

----------------------------------------------------------------------------
(* State *)

VARIABLES
  fs,          \* the filesystem but for the container file: path -> node
  out,         \* the container file (outPath of Backup, inPath of Restore)
  ScryptN,     \* the package variable ScryptN
  seals,       \* the outputs of Seal so far: (key, nonce, plaintext)
  bpc,         \* Backup: where the call is
  bpass,       \* Backup: passphrase
  bpayload,    \* Backup: payload
  bsalt,       \* Backup: salt
  bkey,        \* Backup: key
  bnonce,      \* Backup: nonce
  bct,         \* Backup: ciphertext
  bts,         \* Backup: ts
  bw,          \* Backup: the f.Write the call is at (1..7)
  berr,        \* Backup: the error returned
  rpc,         \* Restore: where the call is
  rpass,       \* Restore: passphrase
  b,           \* Restore: b, the bytes read
  salt,        \* Restore: salt
  nonce,       \* Restore: nonce
  ciphertext,  \* Restore: ciphertext
  key,         \* Restore: key
  payload,     \* Restore: payload
  idx,         \* Restore: the archive entries tr.Next has returned
  rerr,        \* Restore: the error returned
  umask,       \* Restore: the umask of the process
  intSize,     \* Restore: the bytes of int in the build
  rin,         \* Restore: inPath, "out" (the path Backup writes) or "other"
  other,       \* a container file at another path than outPath
  oorigin,     \* history: where the file at the other path comes from
  drawn,       \* history: the salts and nonces rand.Read has returned
  origin,      \* history: where the container file comes from
  fs0,         \* history: the filesystem at the start
  config,      \* sshconfig: the ssh config file
  last,        \* history: alias -> the entry of the last AddOrReplaceEntry
  lastCall,    \* history: the last sshconfig call and the error it returned
  before,      \* history: the ssh config file before the last call
  onlyAdds,    \* history: RemoveEntry was not called yet
  calls,       \* history: the sshconfig calls made
  goos,        \* profiles: the operating system of the build
  keysJson,    \* profiles: meta/keys.json, name -> stored fields
  meta,        \* profiles: the map LoadProfiles returned
  desired,     \* profiles: PreviewSSHConfig's desired, alias -> entry
  todo,        \* profiles: the names the range over meta has not yielded
  ppc,         \* profiles: where PreviewSSHConfig is
  prune,       \* sync: the prune flag of SyncSSHConfig and PreviewSSHConfig
  adds,        \* sync: the entries PreviewSSHConfig returned to add
  removes,     \* sync: the aliases PreviewSSHConfig returned to remove
  step,        \* sync: the calls SyncSSHConfig's two loops have made
  round,       \* sync: 1 in SyncSSHConfig, 2 in the PreviewSSHConfig after it
  metaDir,     \* add: whether <baseDir>/meta is there
  corrupt,     \* add: whether keys.json holds bytes that do not parse
  added,       \* add: name -> what the last Add of the name that returned nil got and returned
  lastAdd      \* add: the last call of Init or Add, the error it returned, and
               \* whether a call so far returned an error

bvars == <<bpc, bpass, bpayload, bsalt, bkey, bnonce, bct, bts, bw, berr>>
rvars == <<rpc, rpass, b, salt, nonce, ciphertext, key, payload, idx, rerr, umask, intSize, rin>>
ovars == <<other, oorigin>>
svars == <<config, last, lastCall, before, onlyAdds, calls>>
yvars == <<prune, adds, removes, step, round>>
avars == <<metaDir, corrupt, added, lastAdd>>
pvars == <<goos, keysJson, meta, desired, todo, ppc, yvars, avars>>
kvars == <<fs, out, ScryptN, seals, bvars, rvars, origin, fs0, ovars, drawn>>
vars == <<kvars, svars, pvars>>

NoFile == [exists |-> FALSE, bytes |-> <<>>]
NoPayload == [gz |-> FALSE, entries |-> <<>>]
NoOrigin == [kind |-> "none", pass |-> "", N |-> 0, full |-> <<>>, tamper |-> "none", pos |-> 0]

\* the filesystem holding tree at dir (the directory itself with mode 0700)
Planted(dir, tree) ==
  [q \in {dir} \cup {dir \o rel : rel \in DOMAIN tree} |->
     IF q = dir THEN DirNode(Oct(7, 0, 0)) ELSE tree[SubSeq(q, Len(dir) + 1, Len(q))]]

NoConfig == [exists |-> FALSE, text |-> <<>>]
NoCall == [op |-> "none", alias |-> <<>>, err |-> NoErr]

\* no call of Init or Add made
NoAdd == [op |-> "none", name |-> <<>>, err |-> NoErr, failed |-> FALSE]

\* package sshconfig with the config file c and no call made
InitSshconfig(c) ==
  /\ config = c /\ before = c
  /\ last = <<>> /\ lastCall = NoCall /\ onlyAdds = TRUE /\ calls = 0

\* the profiles with keys.json holding k, on a build for os
InitProfiles(os, k) ==
  /\ goos = os /\ keysJson = k
  /\ meta = <<>> /\ desired = <<>> /\ todo = {} /\ ppc = "idle"
  /\ prune = TRUE /\ adds = <<>> /\ removes = <<>> /\ step = 0 /\ round = 1
  /\ metaDir = k.exists /\ corrupt = FALSE /\ added = <<>> /\ lastAdd = NoAdd

\* package backup over a directory tree, or over none
\* package backup over a directory tree, or over none, with the file o at
\* outPath
InitBackupOver(o) ==
  /\ \E present \in BOOLEAN, tree \in Trees :
       /\ ~present => tree = NoTree
       /\ fs = IF present THEN Planted(baseDir, tree) ELSE <<>>
  /\ fs0 = fs
  /\ out = o
  /\ ScryptN = DefaultScryptN
  /\ seals = <<>>
  /\ bpc = "idle" /\ bpass = "" /\ bpayload = NoPayload /\ bsalt = <<>>
  /\ bkey = NoKey /\ bnonce = <<>> /\ bct = <<>> /\ bts = 0 /\ bw = 0 /\ berr = NoErr
  /\ rpc = "idle" /\ rpass = "" /\ b = <<>> /\ salt = <<>> /\ nonce = <<>>
  /\ ciphertext = <<>> /\ key = NoKey /\ payload = NoPayload /\ idx = 0
  /\ rerr = NoErr /\ umask = 0 /\ intSize = 0 /\ rin = "out"
  /\ origin = NoOrigin
  /\ other = NoFile /\ oorigin = NoOrigin
  /\ drawn = {}

InitBackup == InitBackupOver(NoFile)

Init ==
  /\ InitBackup
  /\ InitSshconfig(NoConfig)
  /\ InitProfiles("linux", [exists |-> FALSE, profiles |-> <<>>])

\* deriveKey deriving the key from the salt alone
deriveKey_SaltOnly(pass, s) == scryptKey("", s, ScryptN)

\* deriveKey(pass, salt)
deriveKey(pass, s) == scryptKey(pass, s, ScryptN)

----------------------------------------------------------------------------
(* Backup *)

\* Backup returning without zeroBytes(key)
BackupReturn_KeepKey(e) ==
  /\ bpc' = "done"
  /\ berr' = e
  /\ UNCHANGED bkey

\* Backup returns e: the deferred zeroBytes(key) runs
BackupReturn(e) ==
  /\ bpc' = "done"
  /\ berr' = e
  /\ bkey' = NoKey

\* Backup opening outPath before it archives the directory
BackupArchive_CreateFirst(pass) ==
  /\ bpc = "idle" /\ origin.kind = "none"
  /\ rpc = "idle" \/ rin # "out"
  /\ bpass' = pass
  /\ out' = [exists |-> TRUE, bytes |-> <<>>]
  /\ IF ~IsDir(fs, baseDir)
     THEN /\ BackupReturn(IF Exists(fs, baseDir) THEN ErrNotDir ELSE ErrNotExist)
          /\ origin' = [origin EXCEPT !.kind = "failed"]
          /\ UNCHANGED bpayload
     ELSE /\ \E order \in WalkOrders(Subtree(fs, baseDir)) :
               bpayload' = createTarGzip(Subtree(fs, baseDir), order)
          /\ bpc' = "salt"
          /\ UNCHANGED <<berr, bkey, origin>>
  /\ UNCHANGED <<fs, ScryptN, seals, bsalt, bnonce, bct, bts, bw, rvars, fs0, ovars,
                 drawn, svars, pvars>>

\* the call and createTarGzip(baseDir)
BackupArchive(pass) ==
  /\ bpc = "idle" /\ origin.kind = "none"
  /\ rpc = "idle" \/ rin # "out"
  /\ bpass' = pass
  /\ IF ~IsDir(fs, baseDir)
     THEN /\ BackupReturn(IF Exists(fs, baseDir) THEN ErrNotDir ELSE ErrNotExist)
          /\ origin' = [origin EXCEPT !.kind = "failed"]
          /\ UNCHANGED bpayload
     ELSE /\ \E order \in WalkOrders(Subtree(fs, baseDir)) :
               bpayload' = createTarGzip(Subtree(fs, baseDir), order)
          /\ bpc' = "salt"
          /\ UNCHANGED <<berr, bkey, origin>>
  /\ UNCHANGED <<fs, out, ScryptN, seals, bsalt, bnonce, bct, bts, bw, rvars, fs0, ovars,
                 drawn, svars, pvars>>

\* BackupSalt with the same salt in every call
BackupSalt_Fixed ==
  /\ bpc = "salt"
  /\ \/ /\ BackupReturn(ErrRand)
        /\ origin' = [origin EXCEPT !.kind = "failed"]
        /\ UNCHANGED <<bsalt, drawn>>
     \/ /\ bsalt' = RandBytes(saltLen, 1)
        /\ drawn' = drawn \cup {bsalt'}
        /\ bpc' = "derive"
        /\ UNCHANGED <<berr, bkey, origin>>
  /\ UNCHANGED <<fs, out, ScryptN, seals, bpass, bpayload, bnonce, bct, bts, bw, rvars, fs0,
                 ovars, svars, pvars>>

\* salt := make([]byte, saltLen); rand.Read(salt)
BackupSalt ==
  /\ bpc = "salt"
  /\ \/ /\ BackupReturn(ErrRand)
        /\ origin' = [origin EXCEPT !.kind = "failed"]
        /\ UNCHANGED <<bsalt, drawn>>
     \/ /\ \E r \in Rands :
             /\ RandBytes(saltLen, r) \notin drawn
             /\ bsalt' = RandBytes(saltLen, r)
        /\ drawn' = drawn \cup {bsalt'}
        /\ bpc' = "derive"
        /\ UNCHANGED <<berr, bkey, origin>>
  /\ UNCHANGED <<fs, out, ScryptN, seals, bpass, bpayload, bnonce, bct, bts, bw, rvars, fs0,
                 ovars, svars, pvars>>

\* key, err := deriveKey(passphrase, salt)
BackupDerive ==
  /\ bpc = "derive"
  /\ LET d == deriveKey(bpass, bsalt) IN
     IF d.err # NoErr
     THEN /\ BackupReturn(d.err)
          /\ origin' = [origin EXCEPT !.kind = "failed"]
     ELSE /\ bkey' = d.key
          /\ bpc' = "seal"
          /\ UNCHANGED <<berr, origin>>
  /\ UNCHANGED <<fs, out, ScryptN, seals, bpass, bpayload, bsalt, bnonce, bct, bts, bw, rvars,
                 fs0, ovars, drawn, svars, pvars>>

\* chacha20poly1305.NewX(key); rand.Read(nonce); aead.Seal(nil, nonce, payload, nil)
BackupSeal ==
  /\ bpc = "seal"
  /\ \/ /\ BackupReturn(ErrRand)
        /\ origin' = [origin EXCEPT !.kind = "failed"]
        /\ UNCHANGED <<bnonce, bct, seals, drawn>>
     \/ /\ \E r \in Rands :
             /\ RandBytes(nonceLen, r) \notin drawn
             /\ bnonce' = RandBytes(nonceLen, r)
             /\ bct' = Seal(seals, bkey, bnonce', bpayload)
             /\ seals' = SealTable(seals, bkey, bnonce', bpayload)
        /\ drawn' = drawn \cup {bnonce'}
        /\ bpc' = "create"
        /\ UNCHANGED <<berr, bkey, origin>>
  /\ UNCHANGED <<fs, out, ScryptN, bpass, bpayload, bsalt, bts, bw, rvars, fs0, ovars, svars, pvars>>

\* os.OpenFile(outPath, O_CREATE|O_WRONLY|O_TRUNC, 0o600)
BackupCreate ==
  /\ bpc = "create"
  /\ \/ /\ BackupReturn(ErrAccess)
        /\ origin' = [origin EXCEPT !.kind = "failed"]
        /\ UNCHANGED <<out, bw>>
     \/ /\ out' = [exists |-> TRUE, bytes |-> <<>>]
        /\ bpc' = "write"
        /\ bw' = 1
        /\ UNCHANGED <<berr, bkey, origin>>
  /\ UNCHANGED <<fs, ScryptN, seals, bpass, bpayload, bsalt, bnonce, bct, bts, rvars, fs0,
                 ovars, drawn, svars, pvars>>

\* the bytes a failed f.Write of chunk may have written before the error
ShortWrites(chunk) == {0, Len(chunk) - 1}

\* one f.Write, in the order magic, version, salt, nonce, timestamp, length,
\* ciphertext; time.Now() is read before the timestamp is written
BackupWrite ==
  /\ bpc = "write"
  /\ \E c \in Clocks :
       LET ts == IF bw = 5 THEN UnixTime(c) ELSE bts
           chunk == Chunks(bsalt, bnonce, ts, bct)[bw]
       IN /\ bts' = ts
          /\ \/ /\ \E n \in ShortWrites(chunk) :
                     out' = [out EXCEPT !.bytes = out.bytes \o SubSeq(chunk, 1, n)]
                /\ BackupReturn(ErrIO)
                /\ origin' = [origin EXCEPT !.kind = "failed"]
                /\ UNCHANGED bw
             \/ /\ out' = [out EXCEPT !.bytes = out.bytes \o chunk]
                /\ IF bw < 7
                   THEN /\ bw' = bw + 1
                        /\ UNCHANGED <<bpc, berr, bkey, origin>>
                   ELSE /\ BackupReturn(NoErr)
                        /\ origin' = [kind |-> "backup", pass |-> bpass, N |-> bkey.N,
                                      full |-> out'.bytes, tamper |-> "none", pos |-> 0]
                        /\ UNCHANGED bw
  /\ UNCHANGED <<fs, ScryptN, seals, bpass, bpayload, bsalt, bnonce, bct, rvars, fs0, ovars,
                 drawn, svars, pvars>>

----------------------------------------------------------------------------
(* Restore *)

\* Restore returns e: the deferred zeroBytes(key) runs
RestoreReturn(e) ==
  /\ rpc' = "done"
  /\ rerr' = e
  /\ key' = NoKey

\* the file at a path: outPath of Backup or the other path
File(path) == IF path = "out" THEN out ELSE other

\* the call and os.ReadFile(inPath); a caller does not read the path a
\* Backup is writing
RestoreRead(pass, inPath) ==
  /\ rpc = "idle"
  /\ inPath = "out" => bpc \in {"idle", "done"}
  /\ rpass' = pass
  /\ rin' = inPath
  /\ IF File(inPath).exists
     THEN /\ b' = File(inPath).bytes
          /\ rpc' = "decode"
          /\ UNCHANGED <<rerr, key>>
     ELSE /\ RestoreReturn(ErrNotExist)
          /\ UNCHANGED b
  /\ UNCHANGED <<fs, out, ScryptN, seals, bvars, salt, nonce, ciphertext, payload, idx,
                 umask, intSize, origin, fs0, ovars, drawn, svars, pvars>>

\* RestoreDecode going on to the key derivation whatever the decoding said
RestoreDecode_NoValidation ==
  /\ rpc = "decode"
  /\ \E w \in IntSizes :
       LET d == Decode(b, w) IN
       /\ salt' = IF d.err = NoErr THEN d.salt ELSE RandBytes(saltLen, 0)
       /\ nonce' = d.nonce
       /\ ciphertext' = d.ciphertext
       /\ intSize' = w
       /\ rpc' = "derive"
       /\ UNCHANGED <<rerr, key>>
  /\ UNCHANGED <<fs, out, ScryptN, seals, bvars, rpass, rin, b, payload, idx, umask, origin,
                 fs0, ovars, drawn, svars, pvars>>

\* the length check, magic, version, salt, nonce, the skipped timestamp and
\* the declared length, on a build whose int has w bytes
RestoreDecode ==
  /\ rpc = "decode"
  /\ \E w \in IntSizes :
       LET d == Decode(b, w) IN
       IF d = DecodePanic
       THEN /\ rpc' = "panic"
            /\ UNCHANGED <<rerr, key, salt, nonce, ciphertext, intSize>>
       ELSE IF d.err # NoErr
       THEN /\ RestoreReturn(d.err)
            /\ UNCHANGED <<salt, nonce, ciphertext, intSize>>
       ELSE /\ salt' = d.salt
            /\ nonce' = d.nonce
            /\ ciphertext' = d.ciphertext
            /\ intSize' = w
            /\ rpc' = "derive"
            /\ UNCHANGED <<rerr, key>>
  /\ UNCHANGED <<fs, out, ScryptN, seals, bvars, rpass, rin, b, payload, idx, umask, origin,
                 fs0, ovars, drawn, svars, pvars>>

\* key, err := deriveKey(passphrase, salt)
RestoreDerive ==
  /\ rpc = "derive"
  /\ LET d == deriveKey(rpass, salt) IN
     IF d.err # NoErr
     THEN RestoreReturn(d.err)
     ELSE /\ key' = d.key
          /\ rpc' = "open"
          /\ UNCHANGED rerr
  /\ UNCHANGED <<fs, out, ScryptN, seals, bvars, rpass, rin, b, salt, nonce, ciphertext, payload,
                 idx, umask, intSize, origin, fs0, ovars, drawn, svars, pvars>>

\* RestoreOpen creating destDir before it opens the ciphertext
RestoreOpen_MkdirFirst ==
  /\ rpc = "open"
  /\ fs' = MkdirAll(fs, destDir, Oct(7, 0, 0), 0).fs
  /\ LET o == Open(seals, key, nonce, ciphertext) IN
     IF o.err # NoErr
     THEN /\ RestoreReturn(o.err)
          /\ UNCHANGED payload
     ELSE /\ payload' = o.pt
          /\ rpc' = "mkdir"
          /\ UNCHANGED <<rerr, key>>
  /\ UNCHANGED <<out, ScryptN, seals, bvars, rpass, rin, b, salt, nonce, ciphertext, idx,
                 umask, intSize, origin, fs0, ovars, drawn, svars, pvars>>

\* chacha20poly1305.NewX(key); aead.Open(nil, nonce, ciphertext, nil)
RestoreOpen ==
  /\ rpc = "open"
  /\ LET o == Open(seals, key, nonce, ciphertext) IN
     IF o.err # NoErr
     THEN /\ RestoreReturn(o.err)
          /\ UNCHANGED payload
     ELSE /\ payload' = o.pt
          /\ rpc' = "mkdir"
          /\ UNCHANGED <<rerr, key>>
  /\ UNCHANGED <<fs, out, ScryptN, seals, bvars, rpass, rin, b, salt, nonce, ciphertext, idx,
                 umask, intSize, origin, fs0, ovars, drawn, svars, pvars>>

\* RestoreMkdir leaving destDir to the entries of the archive
RestoreMkdir_NoMkdir ==
  /\ rpc = "mkdir"
  /\ \E m \in Umasks :
       /\ umask' = m
       /\ fs' = fs
       /\ IF ~payload.gz THEN RestoreReturn(ErrGzip)
          ELSE /\ rpc' = "next"
               /\ UNCHANGED <<rerr, key>>
  /\ UNCHANGED <<out, ScryptN, seals, bvars, rpass, rin, b, salt, nonce, ciphertext, payload, idx,
                 intSize, origin, fs0, ovars, drawn, svars, pvars>>

\* os.MkdirAll(destDir, 0o700); gzip.NewReader(payload); tar.NewReader
RestoreMkdir ==
  /\ rpc = "mkdir"
  /\ \E m \in Umasks :
       LET r == MkdirAll(fs, destDir, Oct(7, 0, 0), m) IN
       /\ umask' = m
       /\ fs' = r.fs
       /\ IF r.err # NoErr THEN RestoreReturn(r.err)
          ELSE IF ~payload.gz THEN RestoreReturn(ErrGzip)
          ELSE /\ rpc' = "next"
               /\ UNCHANGED <<rerr, key>>
  /\ UNCHANGED <<out, ScryptN, seals, bvars, rpass, rin, b, salt, nonce, ciphertext, payload, idx,
                 intSize, origin, fs0, ovars, drawn, svars, pvars>>

\* Unpack returning an error for a type it does not know
Unpack_ErrOnOther(f, hdr, mask) ==
  LET target == Join(destDir, hdr.name) IN
  IF hdr.typeflag = "TypeDir"
  THEN MkdirAll(f, target, Oct(7, 5, 5), mask)
  ELSE IF hdr.typeflag = "TypeReg"
  THEN LET r == MkdirAll(f, Dir(target), Oct(7, 5, 5), mask) IN
       IF r.err # NoErr THEN r
       ELSE WriteFile(r.fs, target, hdr.mode, mask, hdr.data)
  ELSE [err |-> ErrBadFormat, fs |-> f]

\* the body of the unpack loop for one header: the switch on hdr.Typeflag
Unpack(f, hdr, mask) ==
  LET target == Join(destDir, hdr.name) IN
  IF hdr.typeflag = "TypeDir"
  THEN MkdirAll(f, target, Oct(7, 5, 5), mask)
  ELSE IF hdr.typeflag = "TypeReg"
  THEN LET r == MkdirAll(f, Dir(target), Oct(7, 5, 5), mask) IN
       IF r.err # NoErr THEN r
       ELSE WriteFile(r.fs, target, hdr.mode, mask, hdr.data)
  ELSE [err |-> NoErr, fs |-> f]

\* one turn of the loop: tr.Next(), then the entry
RestoreEntry ==
  /\ rpc = "next"
  /\ IF idx = Len(payload.entries)
     THEN /\ RestoreReturn(NoErr)
          /\ UNCHANGED <<fs, idx>>
     ELSE LET r == Unpack(fs, payload.entries[idx + 1], umask) IN
          /\ fs' = r.fs
          /\ idx' = idx + 1
          /\ IF r.err # NoErr THEN RestoreReturn(r.err)
             ELSE UNCHANGED <<rpc, rerr, key>>
  /\ UNCHANGED <<out, ScryptN, seals, bvars, rpass, rin, b, salt, nonce, ciphertext, payload,
                 umask, intSize, origin, fs0, ovars, drawn, svars, pvars>>

----------------------------------------------------------------------------
(* The environment: the caller's configuration and what happens to the      *)
(* container file between Backup and Restore                                *)

Idle == bpc \in {"idle", "done"} /\ rpc = "idle"

\* a caller assigns ScryptN
SetScryptN(n) ==
  /\ Idle
  /\ n # ScryptN
  /\ ScryptN' = n
  /\ UNCHANGED <<fs, out, seals, bvars, rvars, origin, fs0, ovars, drawn, svars, pvars>>

Untouched == Idle /\ origin.kind = "backup" /\ origin.tamper = "none"

\* the values a changed byte differs by
Deltas == {1, 128}

\* one byte of the container file changes
FlipByte(pos, d) ==
  /\ Untouched
  /\ pos \in 1..Len(out.bytes)
  /\ out' = [out EXCEPT !.bytes[pos].v = (@ + d) % 256]
  /\ origin' = [origin EXCEPT !.tamper = "flip", !.pos = pos]
  /\ UNCHANGED <<fs, ScryptN, seals, bvars, rvars, fs0, ovars, drawn, svars, pvars>>

\* the container file is cut to its first n bytes
Truncate(n) ==
  /\ Untouched
  /\ n \in 0..(Len(out.bytes) - 1)
  /\ out' = [out EXCEPT !.bytes = SubSeq(@, 1, n)]
  /\ origin' = [origin EXCEPT !.tamper = "truncate", !.pos = n]
  /\ UNCHANGED <<fs, ScryptN, seals, bvars, rvars, fs0, ovars, drawn, svars, pvars>>

\* a byte follows the container
AppendByte ==
  /\ Untouched
  /\ out' = [out EXCEPT !.bytes = Append(@, Plain(0))]
  /\ origin' = [origin EXCEPT !.tamper = "append", !.pos = Len(out.bytes) + 1]
  /\ UNCHANGED <<fs, ScryptN, seals, bvars, rvars, fs0, ovars, drawn, svars, pvars>>

\* a container made elsewhere, sealed under pass, is at the other path
CraftOther(pass, pt) ==
  /\ bpc = "idle" /\ rpc = "idle" /\ ~other.exists
  /\ deriveKey(pass, RandBytes(saltLen, 1)).err = NoErr
  /\ LET s == RandBytes(saltLen, 1)
         n == RandBytes(nonceLen, 1)
         k == deriveKey(pass, s).key
     IN /\ seals' = SealTable(seals, k, n, pt)
        /\ other' = [exists |-> TRUE,
                     bytes |-> Container(s, n, UnixTime(1), Seal(seals, k, n, pt))]
        /\ oorigin' = [kind |-> "crafted", pass |-> pass, N |-> ScryptN, full |-> other'.bytes,
                       tamper |-> "none", pos |-> 0]
  /\ UNCHANGED <<fs, out, ScryptN, bvars, rvars, origin, fs0, drawn, svars, pvars>>

\* the container Backup wrote is at another path when the caller calls Backup
\* again: the first call has returned and its locals are gone
NextBackup ==
  /\ Idle /\ bpc = "done"
  /\ origin.kind = "backup" /\ ~other.exists
  /\ other' = out
  /\ oorigin' = origin
  /\ out' = NoFile
  /\ origin' = NoOrigin
  /\ bpc' = "idle" /\ bpass' = "" /\ bpayload' = NoPayload /\ bsalt' = <<>>
  /\ bkey' = NoKey /\ bnonce' = <<>> /\ bct' = <<>> /\ bts' = 0 /\ bw' = 0 /\ berr' = NoErr
  /\ UNCHANGED <<fs, ScryptN, seals, rvars, fs0, drawn, svars, pvars>>

\* the caller restores one of the two containers once both are written
RestoreOfTwo(pass, inPath) ==
  /\ origin.kind = "backup" /\ oorigin.kind = "backup"
  /\ RestoreRead(pass, inPath)

Entry(name, typeflag, mode, data) ==
  [name |-> name, typeflag |-> typeflag, mode |-> mode, data |-> data]

\* payloads of containers that were not written by Backup
CraftedPayloads ==
  { [gz |-> FALSE, entries |-> <<>>],
    [gz |-> TRUE, entries |-> <<Entry(<<"..", "evil">>, "TypeReg", Oct(6, 4, 4), "evil")>>],
    [gz |-> TRUE, entries |-> <<Entry(<<"..", "base", "keys">>, "TypeDir", Oct(7, 5, 5), "")>>],
    [gz |-> TRUE, entries |-> <<Entry(<<"", "abs">>, "TypeReg", Oct(6, 4, 4), "abs")>>],
    [gz |-> TRUE, entries |-> <<Entry(<<"ln">>, "TypeSymlink", Oct(7, 7, 7), ""),
                                Entry(<<"d", "f">>, "TypeReg", Oct(6, 0, 0), "f"),
                                Entry(<<"d">>, "TypeDir", Oct(7, 0, 0), "")>>] }

\* a container made elsewhere, sealed under pass, is put at inPath
Craft(pass, pt) ==
  /\ Idle /\ bpc = "idle" /\ origin.kind = "none"
  /\ deriveKey(pass, RandBytes(saltLen, 1)).err = NoErr
  /\ LET s == RandBytes(saltLen, 1)
         n == RandBytes(nonceLen, 1)
         k == deriveKey(pass, s).key
     IN /\ seals' = SealTable(seals, k, n, pt)
        /\ out' = [exists |-> TRUE,
                   bytes |-> Container(s, n, UnixTime(1), Seal(seals, k, n, pt))]
        /\ origin' = [kind |-> "crafted", pass |-> pass, N |-> ScryptN, full |-> out'.bytes,
                      tamper |-> "none", pos |-> 0]
  /\ UNCHANGED <<fs, ScryptN, bvars, rvars, fs0, ovars, drawn, svars, pvars>>

----------------------------------------------------------------------------

\* Backup and Restore with a caller that sets ScryptN and containers made
\* elsewhere
Next ==
  \/ \E pass \in Passphrases : BackupArchive(pass)
  \/ BackupSalt
  \/ BackupDerive
  \/ BackupSeal
  \/ BackupCreate
  \/ BackupWrite
  \/ \E pass \in Passphrases : RestoreRead(pass, "out")
  \/ RestoreDecode
  \/ RestoreDerive
  \/ RestoreOpen
  \/ RestoreMkdir
  \/ RestoreEntry
  \/ \E n \in ScryptNs : SetScryptN(n)
  \/ \E pass \in Passphrases, pt \in CraftedPayloads : Craft(pass, pt)

Spec == Init /\ [][Next]_vars

\* Backup of one tree, the container file changed in one place, cut or
\* extended, then Restore
InitTamper == Init /\ fs = Planted(baseDir, KeyTree)

NextTamper ==
  \/ \E pass \in Passphrases : BackupArchive(pass)
  \/ BackupSalt
  \/ BackupDerive
  \/ BackupSeal
  \/ BackupCreate
  \/ BackupWrite
  \/ \E pass \in Passphrases : RestoreRead(pass, "out")
  \/ RestoreDecode
  \/ RestoreDerive
  \/ RestoreOpen
  \/ RestoreMkdir
  \/ RestoreEntry
  \/ \E pos \in 1..Len(out.bytes), d \in Deltas : FlipByte(pos, d)
  \/ \E n \in 0..Len(out.bytes) : Truncate(n)
  \/ AppendByte

SpecTamper == InitTamper /\ [][NextTamper]_vars

\* Backup called twice on one directory, each container at its own path, and
\* Restore of either
InitTwice == Init /\ fs = Planted(baseDir, MixedTree)

NextTwice ==
  \/ \E pass \in Passphrases : BackupArchive(pass)
  \/ BackupSalt
  \/ BackupDerive
  \/ BackupSeal
  \/ BackupCreate
  \/ BackupWrite
  \/ NextBackup
  \/ \E pass \in Passphrases : RestoreOfTwo(pass, "out")
  \/ \E pass \in Passphrases : RestoreOfTwo(pass, "other")
  \/ RestoreDecode
  \/ RestoreDerive
  \/ RestoreOpen
  \/ RestoreMkdir
  \/ RestoreEntry

SpecTwice == InitTwice /\ [][NextTwice]_vars

\* Backup of baseDir into outPath and Restore of the file at the other path
\* into destDir, called by two goroutines: their steps interleave
InitConc == Init /\ fs = Planted(baseDir, PubTree)

NextConc ==
  \/ \E pass \in Passphrases, pt \in CraftedPayloads : CraftOther(pass, pt)
  \/ \E pass \in Passphrases : BackupArchive(pass)
  \/ BackupSalt
  \/ BackupDerive
  \/ BackupSeal
  \/ BackupCreate
  \/ BackupWrite
  \/ \E pass \in Passphrases : RestoreRead(pass, "other")
  \/ RestoreDecode
  \/ RestoreDerive
  \/ RestoreOpen
  \/ RestoreMkdir
  \/ RestoreEntry

SpecConc == InitConc /\ [][NextConc]_vars

\* Backup to an outPath where a file is already: the bytes of that file
PriorFile == [exists |-> TRUE, bytes |-> PlainSeq(<<7, 7, 7>>)]

InitOver ==
  /\ InitBackupOver(PriorFile)
  /\ InitSshconfig(NoConfig)
  /\ InitProfiles("linux", [exists |-> FALSE, profiles |-> <<>>])

NextOver ==
  \/ \E n \in ScryptNs : SetScryptN(n)
  \/ \E pass \in Passphrases : BackupArchive(pass)
  \/ BackupSalt
  \/ BackupDerive
  \/ BackupSeal
  \/ BackupCreate
  \/ BackupWrite

SpecOver == InitOver /\ [][NextOver]_vars

----------------------------------------------------------------------------
(* Package sshconfig: the text of the config file *)

NL == "\n"
IND == "    "
BEGIN == "# BEGIN GITPROFILES "
END == "# END GITPROFILES "
HOST == "Host "
HOSTNAME == "HostName "
USER == "User "
IDENTITYFILE == "IdentityFile "
IDENTITIESONLY == "IdentitiesOnly yes"

\* strings.Index(s, sub): the 0-based place of the first sub in s, or -1
Index(s, sub) ==
  LET hits == {i \in 0..(Len(s) - Len(sub)) : SubSeq(s, i + 1, i + Len(sub)) = sub} IN
  IF hits = {} THEN -1 ELSE CHOOSE i \in hits : \A j \in hits : i <= j

\* s[from:] and s[:to]
From(s, from) == SubSeq(s, from + 1, Len(s))
Upto(s, to) == SubSeq(s, 1, to)

\* type Entry
SshEntry(alias, hostName, user, identityFile) ==
  [Alias |-> alias, HostName |-> hostName, User |-> user, IdentityFile |-> identityFile]

\* the markers of alias
BeginOf(alias) == <<BEGIN>> \o alias
EndOf(alias) == <<END>> \o alias

\* block: blockLines joined by "\n", and "\n"
Block(e) ==
  BeginOf(e.Alias) \o <<NL, HOST>> \o e.Alias \o <<NL, IND, HOSTNAME>> \o e.HostName
    \o <<NL, IND, USER>> \o e.User \o <<NL, IND, IDENTITYFILE>> \o e.IdentityFile
    \o <<NL, IND, IDENTITIESONLY, NL>> \o EndOf(e.Alias) \o <<NL>>

\* the place after the end marker found endIdx after beginIdx, the following
\* newline included if present
AfterEnd(content, beginIdx, endIdx, end) ==
  LET stop == beginIdx + endIdx + Len(end) IN
  IF stop < Len(content) /\ content[stop + 1] = NL THEN stop + 1 ELSE stop

\* the content AddOrReplaceEntry writes
Replaced(content, e) ==
  LET beginIdx == Index(content, BeginOf(e.Alias)) IN
  IF beginIdx # -1
  THEN LET endIdx == Index(From(content, beginIdx), EndOf(e.Alias)) IN
       IF endIdx = -1 THEN content \o <<NL>> \o Block(e)
       ELSE Upto(content, beginIdx) \o Block(e)
              \o From(content, AfterEnd(content, beginIdx, endIdx, EndOf(e.Alias)))
  ELSE IF content # <<>> /\ content[Len(content)] # NL
       THEN content \o <<NL>> \o Block(e)
       ELSE content \o Block(e)

\* the content RemoveEntry writes when it finds the begin marker at beginIdx
Removed(content, alias, beginIdx) ==
  LET endIdx == Index(From(content, beginIdx), EndOf(alias)) IN
  IF endIdx = -1 THEN Upto(content, beginIdx)
  ELSE Upto(content, beginIdx) \o From(content, AfterEnd(content, beginIdx, endIdx, EndOf(alias)))

\* strings.Split(content, "\n")
RECURSIVE Split(_)
Split(s) ==
  LET i == Index(s, <<NL>>) IN
  IF i = -1 THEN <<s>> ELSE <<Upto(s, i)>> \o Split(From(s, i + 1))

\* strings.TrimSpace: the indentation is the white space of a line
RECURSIVE TrimLeft(_)
TrimLeft(l) == IF l # <<>> /\ l[1] = IND THEN TrimLeft(Tail(l)) ELSE l
RECURSIVE TrimRight(_)
TrimRight(l) == IF l # <<>> /\ l[Len(l)] = IND THEN TrimRight(Upto(l, Len(l) - 1)) ELSE l
TrimSpace(l) == TrimRight(TrimLeft(l))

HasPrefix(l, piece) == l # <<>> /\ l[1] = piece
Value(l) == TrimSpace(Tail(l))

\* the inner loop of ListEntries from line j on: the fields of e until an end
\* marker
RECURSIVE ScanBlock(_, _, _)
ScanBlock(lines, j, e) ==
  IF j > Len(lines) THEN [found |-> FALSE, j |-> j, e |-> e]
  ELSE LET l == TrimSpace(lines[j]) IN
       IF HasPrefix(l, HOSTNAME) THEN ScanBlock(lines, j + 1, [e EXCEPT !.HostName = Value(l)])
       ELSE IF HasPrefix(l, USER) THEN ScanBlock(lines, j + 1, [e EXCEPT !.User = Value(l)])
       ELSE IF HasPrefix(l, IDENTITYFILE)
       THEN ScanBlock(lines, j + 1, [e EXCEPT !.IdentityFile = Value(l)])
       ELSE IF HasPrefix(l, END) THEN [found |-> TRUE, j |-> j, e |-> e]
       ELSE ScanBlock(lines, j + 1, e)

\* the outer loop of ListEntries from line i on
RECURSIVE ListFrom(_, _, _)
ListFrom(lines, i, entries) ==
  IF i > Len(lines) THEN entries
  ELSE LET line == TrimSpace(lines[i]) IN
       IF HasPrefix(line, BEGIN)
       THEN LET r == ScanBlock(lines, i + 1, SshEntry(Tail(line), <<>>, <<>>, <<>>)) IN
            IF r.found THEN ListFrom(lines, r.j + 1, Append(entries, r.e))
            ELSE ListFrom(lines, i + 1, entries)
       ELSE ListFrom(lines, i + 1, entries)

\* ListEntries(configPath)
ListEntries ==
  IF config.exists THEN [err |-> NoErr, out |-> ListFrom(Split(config.text), 1, <<>>)]
  ELSE [err |-> ErrNotExist, out |-> <<>>]

\* the aliases, host names, user and key file of the calls
Aliases == {<<"a">>, <<"a", "b">>, <<"c">>}
HostNames == {<<"h">>, <<"g">>}
Entries == {SshEntry(a, h, <<"u">>, <<"k">>) : a \in Aliases, h \in HostNames}

\* the config file before the first call: missing, empty, or the user's own
\* lines with and without a newline at the end
InitConfigs ==
  { NoConfig,
    [exists |-> TRUE, text |-> <<>>],
    [exists |-> TRUE, text |-> <<HOST, "x", NL>>],
    [exists |-> TRUE, text |-> <<HOST, "x">>] }

\* a call of package sshconfig returns e
SshReturn(op, alias, e) ==
  /\ lastCall' = [op |-> op, alias |-> alias, err |-> e]
  /\ before' = config
  /\ calls' = calls + 1

\* AddOrReplaceEntry(configPath, e): a config file that is there may fail to
\* be read
AddOrReplaceEntry(e) ==
  /\ calls < MaxCalls
  /\ \/ /\ config.exists
        /\ SshReturn("add", e.Alias, ErrAccess)
        /\ UNCHANGED <<config, last>>
     \/ /\ config' = [exists |-> TRUE,
                      text |-> Replaced(IF config.exists THEN config.text ELSE <<>>, e)]
        /\ last' = (e.Alias :> e) @@ last
        /\ SshReturn("add", e.Alias, NoErr)
  /\ UNCHANGED <<onlyAdds, kvars, pvars>>

\* RemoveEntry(configPath, alias)
RemoveEntry(alias) ==
  /\ calls < MaxCalls
  /\ onlyAdds' = FALSE
  /\ IF ~config.exists
     THEN /\ SshReturn("remove", alias, ErrNotExist)
          /\ UNCHANGED <<config, last>>
     ELSE LET beginIdx == Index(config.text, BeginOf(alias)) IN
          /\ config' = IF beginIdx # -1
                       THEN [config EXCEPT !.text = Removed(config.text, alias, beginIdx)]
                       ELSE config
          /\ last' = [a \in DOMAIN last \ {alias} |-> last[a]]
          /\ SshReturn("remove", alias, NoErr)
  /\ UNCHANGED <<kvars, pvars>>

\* the calls of package sshconfig on one config file
InitSsh ==
  /\ InitBackup /\ fs = <<>>
  /\ \E c \in InitConfigs : InitSshconfig(c)
  /\ InitProfiles("linux", [exists |-> FALSE, profiles |-> <<>>])

NextSsh ==
  \/ \E e \in Entries : AddOrReplaceEntry(e)
  \/ \E alias \in Aliases : RemoveEntry(alias)

SpecSsh == InitSsh /\ [][NextSsh]_vars

\* a config file in which the block of c has its begin marker and no end
\* marker
MalformedConfig == [exists |-> TRUE, text |-> <<BEGIN, "c", NL, HOST, "x", NL>>]

\* the calls of package sshconfig on a config file that may be malformed
InitSshMalformed ==
  /\ InitBackup /\ fs = <<>>
  /\ \E c \in InitConfigs \cup {MalformedConfig} : InitSshconfig(c)
  /\ InitProfiles("linux", [exists |-> FALSE, profiles |-> <<>>])

SpecSshMalformed == InitSshMalformed /\ [][NextSsh]_vars

----------------------------------------------------------------------------
(* The profiles of keys.json: LoadProfiles and PreviewSSHConfig's aliases *)

SLASH == "/"
BACKSLASH == "\\"
DOT == "."
DASH == "-"

\* the operating systems gipo is built for, by their path separator
GOOSes == {"linux", "windows"}
Separator(os) == IF os = "windows" THEN BACKSLASH ELSE SLASH

\* filepath.ToSlash(path) on a build for os
ToSlash(os, path) ==
  IF Separator(os) = SLASH THEN path
  ELSE [i \in 1..Len(path) |-> IF path[i] = Separator(os) THEN SLASH ELSE path[i]]

\* path.Base(path)
RECURSIVE StripSlashes(_)
StripSlashes(path) ==
  IF path # <<>> /\ path[Len(path)] = SLASH THEN StripSlashes(Upto(path, Len(path) - 1))
  ELSE path

Base(path) ==
  IF path = <<>> THEN <<DOT>>
  ELSE LET q == StripSlashes(path)
           slashes == {i \in 1..Len(q) : q[i] = SLASH}
           rest == IF slashes = {} THEN q
                   ELSE From(q, CHOOSE i \in slashes : \A j \in slashes : j <= i)
       IN IF rest = <<>> THEN <<SLASH>> ELSE rest

\* filepath.Join(baseDir, "keys", fileName) on a build for os (Clean leaves
\* the file names of the model as they are)
JoinKeys(os, fileName) == baseDir \o <<Separator(os), "keys", Separator(os)>> \o fileName

\* fixKeyPath(baseDir, oldPath) on a build for os
fixKeyPath(os, oldPath) == JoinKeys(os, Base(ToSlash(os, oldPath)))

\* strings.ReplaceAll(host, ".", "-")
ReplaceAll(host) == [i \in 1..Len(host) |-> IF host[i] = DOT THEN DASH ELSE host[i]]

\* fmt.Sprintf("git-%s-%s", name, strings.ReplaceAll(host, ".", "-"))
Alias(name, host) == <<"git-">> \o name \o <<DASH>> \o ReplaceAll(host)

\* the profile names, hosts and stored key paths of keys.json: a path as Add
\* stores it, an absolute path of a Unix system and one of a Windows system
Names == {<<"a">>, <<"a", DASH, "b">>}
Hosts == {<<>>, <<"b", DOT, "c">>, <<"c">>}
StoredPaths ==
  { <<>>,
    <<"keys", SLASH, "id">>,
    <<SLASH, "home", SLASH, "keys", SLASH, "id">>,
    <<"C:", BACKSLASH, "keys", BACKSLASH, "id">> }
StoredPublic == {<<>>, <<"keys", SLASH, "id.pub">>}

Profiles == [host : Hosts, private : StoredPaths, public : StoredPublic]

\* meta/keys.json: missing, or a map from names to profiles
NoJson == [exists |-> FALSE, profiles |-> <<>>]
KeysJsons ==
  {NoJson} \cup
  { [exists |-> TRUE, profiles |-> m] :
      m \in UNION { [ns -> Profiles] : ns \in SUBSET Names } }

\* LoadProfiles(baseDir)
LoadProfiles ==
  /\ ppc = "idle"
  /\ IF ~keysJson.exists \/ corrupt
     THEN /\ ppc' = "failed"
          /\ UNCHANGED <<meta, todo>>
     ELSE /\ meta' = [name \in DOMAIN keysJson.profiles |->
                       LET info == keysJson.profiles[name] IN
                       [info EXCEPT
                          !.private = IF @ # <<>> THEN fixKeyPath(goos, @) ELSE @,
                          !.public = IF @ # <<>> THEN fixKeyPath(goos, @) ELSE @]]
          /\ todo' = DOMAIN keysJson.profiles
          /\ ppc' = IF todo' = {} THEN "compare" ELSE "desired"
  /\ UNCHANGED <<goos, keysJson, desired, yvars, avars, kvars, svars>>

\* one turn of PreviewSSHConfig's range over meta, which yields name
PreviewDesired(name) ==
  /\ ppc = "desired"
  /\ name \in todo
  /\ LET host == meta[name].host
         priv == meta[name].private
         alias == Alias(name, host)
     IN desired' = IF host = <<>> \/ priv = <<>> THEN desired
                   ELSE (alias :> SshEntry(alias, host, <<"git">>, priv)) @@ desired
  /\ todo' = todo \ {name}
  /\ ppc' = IF todo' = {} THEN "compare" ELSE "desired"
  /\ UNCHANGED <<goos, keysJson, meta, yvars, avars, kvars, svars>>

InitPreview ==
  /\ InitBackup /\ fs = <<>>
  /\ InitSshconfig(NoConfig)
  /\ \E os \in GOOSes, k \in KeysJsons : InitProfiles(os, k)

NextPreview ==
  \/ LoadProfiles
  \/ \E name \in Names : PreviewDesired(name)

SpecPreview == InitPreview /\ [][NextPreview]_vars

----------------------------------------------------------------------------
(* SyncSSHConfig, and the PreviewSSHConfig after it *)

\* the orders a range over a map may yield the elements of S in
Orderings(S) ==
  {o \in [1..Cardinality(S) -> S] : \A i, j \in 1..Cardinality(S) : i # j => o[i] # o[j]}

\* the first loop of PreviewSSHConfig for one desired entry: no existing entry
\* has its alias, or the first that has differs in a field
NeedsAdd(de, existing) ==
  LET hits == {i \in 1..Len(existing) : existing[i].Alias = de.Alias} IN
  IF hits = {} THEN TRUE
  ELSE LET ex == existing[CHOOSE i \in hits : \A j \in hits : i <= j] IN
       ex.HostName # de.HostName \/ ex.User # de.User \/ ex.IdentityFile # de.IdentityFile

\* the prune loop of PreviewSSHConfig
RECURSIVE Stale(_, _)
Stale(existing, want) ==
  IF existing = <<>> THEN <<>>
  ELSE (IF HasPrefix(Head(existing).Alias, "git-") /\ Head(existing).Alias \notin DOMAIN want
        THEN <<Head(existing).Alias>> ELSE <<>>) \o Stale(Tail(existing), want)

\* PreviewSSHConfig from ListEntries on: a config file that is there may fail
\* to be read
PreviewCompare ==
  /\ ppc = "compare"
  /\ \/ /\ config.exists
        /\ ppc' = "failed"
        /\ UNCHANGED <<adds, removes>>
     \/ LET existing == ListEntries.out
            news == {desired[a] : a \in {x \in DOMAIN desired : NeedsAdd(desired[x], existing)}}
        IN /\ \E order \in Orderings(news) : adds' = order
           /\ removes' = IF prune THEN Stale(existing, desired) ELSE <<>>
           /\ ppc' = IF round = 1 THEN "apply" ELSE "previewed"
  /\ UNCHANGED <<goos, keysJson, meta, desired, todo, prune, step, round, avars, kvars, svars>>

\* one turn of SyncSSHConfig's loop over adds
SyncAdd ==
  /\ ppc = "apply"
  /\ step < Len(adds)
  /\ \/ /\ config.exists
        /\ ppc' = "syncfailed"
        /\ UNCHANGED <<config, step>>
     \/ /\ config' = [exists |-> TRUE,
                      text |-> Replaced(IF config.exists THEN config.text ELSE <<>>,
                                        adds[step + 1])]
        /\ step' = step + 1
        /\ UNCHANGED ppc
  /\ UNCHANGED <<goos, keysJson, meta, desired, todo, prune, adds, removes, round, avars,
                 kvars, last, lastCall, before, onlyAdds, calls>>

\* one turn of SyncSSHConfig's loop over removes
SyncRemove ==
  /\ ppc = "apply"
  /\ step >= Len(adds) /\ step < Len(adds) + Len(removes)
  /\ IF ~config.exists
     THEN /\ ppc' = "syncfailed"
          /\ UNCHANGED <<config, step>>
     ELSE LET alias == removes[step - Len(adds) + 1]
              beginIdx == Index(config.text, BeginOf(alias))
          IN /\ config' = IF beginIdx # -1
                          THEN [config EXCEPT !.text = Removed(config.text, alias, beginIdx)]
                          ELSE config
             /\ step' = step + 1
             /\ UNCHANGED ppc
  /\ UNCHANGED <<goos, keysJson, meta, desired, todo, prune, adds, removes, round, avars,
                 kvars, last, lastCall, before, onlyAdds, calls>>

\* SyncSSHConfig returns nil
SyncReturn ==
  /\ ppc = "apply"
  /\ step = Len(adds) + Len(removes)
  /\ ppc' = "synced"
  /\ UNCHANGED <<goos, keysJson, meta, desired, todo, yvars, avars, kvars, svars>>

\* PreviewSSHConfig(base, cfg, prune) is called right after SyncSSHConfig
\* returned nil
PreviewAfter ==
  /\ ppc = "synced"
  /\ round = 1
  /\ round' = 2
  /\ ppc' = "idle"
  /\ meta' = <<>> /\ desired' = <<>> /\ todo' = {}
  /\ UNCHANGED <<goos, keysJson, prune, adds, removes, step, avars, kvars, svars>>

\* the profiles of a sync: each name with any of the hosts and a stored key
SyncProfiles == [host : Hosts \cup {<<"b">>}, private : {<<"keys", SLASH, "id">>}, public : {<<>>}]
SyncJsons ==
  {NoJson} \cup
  { [exists |-> TRUE, profiles |-> m] :
      m \in UNION { [ns -> SyncProfiles] : ns \in SUBSET Names } }

\* the block an earlier sync wrote for a profile of name and host
SyncedBlock(name, host) ==
  Block(SshEntry(Alias(name, host), host, <<"git">>, JoinKeys("linux", <<"id">>)))

\* the config file before the sync: missing, the user's own lines, the blocks
\* of earlier syncs, a block of another base directory's key, a block whose
\* alias is not one of PreviewSSHConfig's, and a begin marker without its end
PriorConfigs ==
  { NoConfig,
    [exists |-> TRUE, text |-> <<HOST, "x", NL>>],
    [exists |-> TRUE, text |-> SyncedBlock(<<"a">>, <<"c">>)],
    [exists |-> TRUE, text |-> SyncedBlock(<<"a", DASH, "b">>, <<"c">>)
                                 \o SyncedBlock(<<"a">>, <<"b">>)],
    [exists |-> TRUE,
     text |-> Block(SshEntry(Alias(<<"a">>, <<"c">>), <<"c">>, <<"git">>, <<"k">>))],
    [exists |-> TRUE, text |-> Block(SshEntry(<<"x">>, <<"c">>, <<"git">>, <<"k">>))],
    [exists |-> TRUE, text |-> BeginOf(Alias(<<"a">>, <<"c">>)) \o <<NL, HOST, "x", NL>>] }

InitSync ==
  /\ InitBackup /\ fs = <<>>
  /\ \E c \in PriorConfigs : InitSshconfig(c)
  /\ \E k \in SyncJsons, p \in BOOLEAN :
       /\ goos = "linux" /\ keysJson = k
       /\ meta = <<>> /\ desired = <<>> /\ todo = {} /\ ppc = "idle"
       /\ prune = p /\ adds = <<>> /\ removes = <<>> /\ step = 0 /\ round = 1
       /\ metaDir = k.exists /\ corrupt = FALSE /\ added = <<>> /\ lastAdd = NoAdd

NextSync ==
  \/ LoadProfiles
  \/ \E name \in Names : PreviewDesired(name)
  \/ PreviewCompare
  \/ SyncAdd
  \/ SyncRemove
  \/ SyncReturn
  \/ PreviewAfter

SpecSync == InitSync /\ [][NextSync]_vars

----------------------------------------------------------------------------
(* Init and Add of package main: the profiles of keys.json *)

\* the algorithms, e-mail addresses and hosts of the Add calls
Algos == {<<"ed25519">>, <<"rsa2048">>}
Emails == {<<>>, <<"e">>, <<"f">>}

\* strings.ReplaceAll(algo, "-", "_")
Underscored(algo) == [i \in 1..Len(algo) |-> IF algo[i] = DASH THEN "_" ELSE algo[i]]

\* baseName of Add: fmt.Sprintf("%s_id_%s", name, ...)
BaseName(name, algo) == name \o <<"_id_">> \o Underscored(algo)

\* filepath.Base(path) on a build for os
FilepathBase(os, path) == Base(ToSlash(os, path))

\* filepath.ToSlash(filepath.Join("keys", filepath.Base(path))) on a build for os
RelPath(os, path) == ToSlash(os, <<"keys", Separator(os)>> \o FilepathBase(os, path))

\* the map LoadProfiles returns for the keys.json k
Normalized(os, k) ==
  [name \in DOMAIN k.profiles |->
     LET info == k.profiles[name] IN
     [info EXCEPT !.private = IF @ # <<>> THEN fixKeyPath(os, @) ELSE @,
                  !.public = IF @ # <<>> THEN fixKeyPath(os, @) ELSE @]]

\* a call of Init or Add returns e
AddReturn(op, name, e) ==
  lastAdd' = [op |-> op, name |-> name, err |-> e, failed |-> lastAdd.failed \/ e # NoErr]

\* Init(baseDir)
InitDirs ==
  /\ \/ /\ AddReturn("init", <<>>, ErrAccess)
        /\ UNCHANGED <<metaDir, keysJson, corrupt>>
     \/ /\ metaDir' = TRUE
        /\ IF ~keysJson.exists
           THEN \/ /\ keysJson' = [exists |-> TRUE, profiles |-> <<>>]
                   /\ corrupt' = FALSE
                   /\ AddReturn("init", <<>>, NoErr)
                \/ /\ AddReturn("init", <<>>, ErrIO)
                   /\ UNCHANGED <<keysJson, corrupt>>
           ELSE /\ AddReturn("init", <<>>, NoErr)
                /\ UNCHANGED <<keysJson, corrupt>>
  /\ UNCHANGED <<goos, meta, desired, todo, ppc, yvars, added, kvars, svars>>

\* Add(baseDir, algo, name, email, host): reading keys.json may fail, and
\* writing it may fail and leave it cut short
Add(algo, name, email, host) ==
  /\ IF algo = <<>> \/ name = <<>> \/ email = <<>>
     THEN /\ AddReturn("add", name, ErrRequired)
          /\ UNCHANGED <<keysJson, corrupt, added>>
     ELSE LET privatePath == JoinKeys(goos, BaseName(name, algo))
              publicPath == privatePath \o <<".pub">>
              info == [algo |-> algo, private |-> RelPath(goos, privatePath),
                       public |-> RelPath(goos, publicPath), email |-> email, host |-> host]
          IN \/ /\ AddReturn("add", name, ErrAccess)
                /\ UNCHANGED <<keysJson, corrupt, added>>
             \/ \E loaded \in {keysJson.exists /\ ~corrupt, FALSE} :
                  LET m == IF loaded THEN Normalized(goos, keysJson) ELSE <<>> IN
                  IF ~metaDir
                  THEN /\ AddReturn("add", name, ErrNotExist)
                       /\ UNCHANGED <<keysJson, corrupt, added>>
                  ELSE \/ /\ keysJson' = [exists |-> TRUE, profiles |-> (name :> info) @@ m]
                          /\ corrupt' = FALSE
                          /\ added' = (name :> [info EXCEPT !.private = privatePath,
                                                            !.public = publicPath]) @@ added
                          /\ AddReturn("add", name, NoErr)
                       \/ /\ keysJson' = [exists |-> TRUE, profiles |-> <<>>]
                          /\ corrupt' = TRUE
                          /\ AddReturn("add", name, ErrIO)
                          /\ UNCHANGED added
  /\ UNCHANGED <<goos, meta, desired, todo, ppc, yvars, metaDir, kvars, svars>>

\* the calls of Init and Add on a base directory that starts empty
InitAdd ==
  /\ InitBackup /\ fs = <<>>
  /\ InitSshconfig(NoConfig)
  /\ \E os \in GOOSes : InitProfiles(os, NoJson)

NextAdd ==
  \/ InitDirs
  \/ \E algo \in Algos, name \in Names, email \in Emails, host \in Hosts :
       Add(algo, name, email, host)

SpecAdd == InitAdd /\ [][NextAdd]_vars

----------------------------------------------------------------------------
(* Properties *)

\* Restore has returned
Returned == rpc = "done"

\* the container file is the one a completed Backup wrote, byte for byte
FromBackup == origin.kind = "backup" /\ origin.tamper = "none"

\* Restore ran on a container Backup wrote, with Backup's passphrase and
\* Backup's cost parameters
SameSecret == FromBackup /\ rpass = origin.pass /\ ScryptN = origin.N

\* C1: Restore of the container written by Backup(D, P), with the same P into
\* an empty destination, returns nil and leaves under destDir a tree equal to D:
\* the same relative paths, the same content of every file and the same mode of
\* every entry, directories included, whatever the walk order
C1_RoundTrip ==
  (Returned /\ SameSecret) =>
     /\ rerr = NoErr
     /\ Subtree(fs, destDir) = Subtree(fs0, baseDir)

\* C2: Restore never creates or changes a path outside destDir, whatever the
\* archive (every path that is new or differs from the start lies in destDir),
\* and an entry whose path leaves destDir makes it return an error (a Restore
\* that returned nil has met no such entry)
C2_TraversalRejected ==
  /\ \A q \in DOMAIN fs :
       (q \notin DOMAIN fs0 \/ fs[q] # fs0[q]) => Within(q, destDir)
  /\ (Returned /\ rerr = NoErr) =>
       \A i \in 1..Len(payload.entries) :
          Within(Join(destDir, payload.entries[i].name), destDir)

\* C3: Restore of a container Backup wrote with passphrase P, run with another
\* passphrase and the same cost parameters, returns the authentication error
C3_WrongPassphrase ==
  (Returned /\ FromBackup /\ rpass # origin.pass /\ ScryptN = origin.N) => rerr = ErrOpen

C3_Witness ==
  Returned /\ FromBackup /\ rpass # origin.pass /\ ScryptN = origin.N /\ rerr = ErrOpen

\* one byte of the ciphertext region (offset 61 on) was changed
CiphertextFlipped ==
  origin.kind = "backup" /\ origin.tamper = "flip" /\ origin.pos > HeaderLen

\* C4: with one byte of the ciphertext region changed, Restore with the right
\* passphrase returns the authentication error, the error a wrong passphrase
\* on the unchanged container returns
C4_TamperDetected ==
  /\ (Returned /\ CiphertextFlipped /\ rpass = origin.pass) => rerr = ErrOpen
  /\ (Returned /\ FromBackup /\ rpass # origin.pass) => rerr = ErrOpen

C4_Witness ==
  /\ Returned /\ CiphertextFlipped /\ rpass = origin.pass /\ rerr = ErrOpen
  /\ origin.pos = Len(origin.full)

\* Restore is past the decoding of the container
Decoded == rpc \in {"derive", "open", "mkdir", "next"} \/ (rpc = "done" /\ salt # <<>>)

\* C5: every proper prefix of a container Backup wrote is rejected with
\* ErrBadFormat: Restore neither gets past decoding nor panics
C5_Truncation ==
  (origin.kind = "backup" /\ origin.tamper = "truncate" /\ rpc \notin {"idle", "decode"}) =>
     (Returned /\ rerr = ErrBadFormat)

C5_Witness ==
  /\ origin.kind = "backup" /\ origin.tamper = "truncate" /\ origin.pos >= HeaderLen
  /\ Returned /\ rerr = ErrBadFormat

\* C6: Restore gets past decoding only when the file length is the 61-byte
\* header plus the declared ciphertext length, whatever the 8 bytes of the
\* length field hold
C6_LengthExact ==
  Decoded =>
     /\ Len(b) >= HeaderLen
     /\ SubSeq(b, HeaderLen - 7, HeaderLen) = PlainSeq(PutUint64(Len(b) - HeaderLen))

\* C7: a container whose version byte is not 0x01 is rejected with
\* ErrBadFormat, before a key is derived
C7_UnknownVersion ==
  (origin.kind = "backup" /\ origin.tamper = "flip" /\ origin.pos = 5
     /\ rpc \notin {"idle", "decode"}) =>
     (Returned /\ rerr = ErrBadFormat /\ salt = <<>>)

\* C8: Restore never reads past the end of its input, and an input shorter
\* than the 61-byte header or not starting with the magic gets ErrBadFormat
C8_HeaderValidation ==
  /\ rpc # "panic"
  /\ (rpc \notin {"idle", "decode"} /\ out.exists /\
        (Len(b) < HeaderLen \/ SubSeq(b, 1, 4) # PlainSeq(magic))) =>
       (Returned /\ rerr = ErrBadFormat)

C8_Witness ==
  /\ Returned /\ rerr = ErrBadFormat /\ out.exists
  /\ Len(b) = 0

\* the ciphertext Restore decoded opens under the key of its passphrase
Opened ==
  LET d == scryptKey(rpass, salt, ScryptN) IN
  d.err = NoErr /\ Open(seals, d.key, nonce, ciphertext).err = NoErr

\* C9: a Restore that has not opened the ciphertext (it is still reading,
\* decoding, deriving or opening, or failed there) has changed nothing: destDir
\* does not exist and the rest of the filesystem is as it was
C9_FailureLeavesDestAlone ==
  (rpc # "idle" /\ ~Opened) => (fs = fs0 /\ ~Exists(fs, destDir))

C9_Witness ==
  Returned /\ rerr = ErrOpen /\ ~Opened /\ fs = fs0 /\ ~Exists(fs, destDir)

\* C10: when Backup has returned an error, the file at outPath is not a proper
\* prefix of the container the call was writing
C10_NoPartialContainer ==
  (bpc = "done" /\ berr # NoErr /\ out.exists) =>
     ~ \E c \in Clocks :
          IsProperPrefix(out.bytes, Container(bsalt, bnonce, UnixTime(c), bct))

\* Backup ran on a directory with no entries
EmptySource == IsDir(fs0, baseDir) /\ DOMAIN Subtree(fs0, baseDir) = {}

\* C12: Backup of a directory with no entries does not fail in createTarGzip
\* (a Backup that returned an error met a failure of rand.Read, scrypt or the
\* output file), and Restore of its container with the same passphrase into a
\* destination that does not exist returns nil and leaves destDir an existing
\* directory with nothing in it
C12_EmptyDirectory ==
  /\ (EmptySource /\ bpc = "done" /\ berr # NoErr) =>
        berr \in {ErrRand, ErrScrypt, ErrAccess, ErrIO}
  /\ (EmptySource /\ Returned /\ SameSecret) =>
        /\ rerr = NoErr
        /\ IsDir(fs, destDir)
        /\ DOMAIN Subtree(fs, destDir) = {}

C12_Witness ==
  /\ EmptySource /\ ~Exists(fs0, destDir) /\ bpc = "done" /\ berr = NoErr
  /\ Returned /\ SameSecret /\ rerr = NoErr /\ IsDir(fs, destDir)

\* the steps of one Restore call from stage to stage: read file, decode,
\* derive key, open, unpack (the destination, then entry after entry), each
\* left for the next one or for the return
StageSteps ==
  { <<"idle", "decode">>, <<"decode", "derive">>, <<"derive", "open">>,
    <<"open", "mkdir">>, <<"mkdir", "next">>, <<"next", "next">> }
  \cup { <<s, "done">> : s \in {"idle", "decode", "derive", "open", "mkdir", "next"} }

\* C18: Restore moves from stage to stage in the order read file, decode,
\* derive key, open, unpack and never back, a stage is entered only when the one
\* before returned no error; a key is derived only for bytes that passed the
\* format validation, and the filesystem is written only once the ciphertext
\* has opened under the derived key
C18_StageOrder ==
  [][ /\ rpc' # rpc => <<rpc, rpc'>> \in StageSteps
      /\ (rpc' \notin {rpc, "done"}) => rerr' = NoErr
      /\ (key' # key /\ key' # NoKey) => (rpc = "derive" /\ Decode(b, intSize).err = NoErr)
      /\ fs' # fs => (rpc \in {"mkdir", "next"} /\ Opened) ]_vars

C18_Witness ==
  Returned /\ rerr = NoErr /\ idx > 0 /\ fs # fs0 /\ Opened

\* the archive entries of a directory or a regular file
Recognized == {"TypeDir", "TypeReg"}

\* C19: after a Restore that returned nil, every directory and every regular
\* file of the archive whose path lies in destDir is there with the permission
\* bits of its entry, and every parent directory of a file exists
C19_RecordedModes ==
  (Returned /\ rerr = NoErr) =>
     \A i \in 1..Len(payload.entries) :
        LET hdr == payload.entries[i]
            target == Join(destDir, hdr.name)
        IN (hdr.typeflag \in Recognized /\ Within(target, destDir)) =>
             /\ Exists(fs, target)
             /\ fs[target].mode = hdr.mode
             /\ \A q \in Prefixes(Dir(target)) : IsDir(fs, q)

\* the entries of the archive that are neither a directory nor a regular file
Unrecognized ==
  {i \in 1..Len(payload.entries) : payload.entries[i].typeflag \notin Recognized}

\* C20: an entry that is neither a directory nor a regular file creates nothing
\* at its path under destDir, the turn of the loop that reads it raises no
\* error, and when Restore returns nil the directories and the regular files
\* after it are under destDir
C20_SkipUnrecognized ==
  \A i \in Unrecognized :
     /\ (rpc \in {"next", "done"} /\ idx >= i) =>
           ~Exists(fs, Join(destDir, payload.entries[i].name))
     /\ (rpc \in {"next", "done"} /\ idx = i) => rerr = NoErr
     /\ (Returned /\ rerr = NoErr) =>
           \A j \in (i + 1)..Len(payload.entries) :
              payload.entries[j].typeflag \in Recognized =>
                 Exists(fs, Join(destDir, payload.entries[j].name))

C20_Witness ==
  /\ Returned /\ rerr = NoErr /\ idx = Len(payload.entries)
  /\ \E i \in Unrecognized : \E j \in (i + 1)..Len(payload.entries) :
        /\ payload.entries[j].typeflag = "TypeReg"
        /\ Exists(fs, Join(destDir, payload.entries[j].name))

\* where the file Restore read comes from
Source == IF rin = "out" THEN origin ELSE oorigin

\* the salt and the nonce fields of a container
SaltOf(c) == SubSeq(c, 6, 5 + saltLen)
NonceOf(c) == SubSeq(c, 6 + saltLen, 5 + saltLen + nonceLen)

\* the paths of a tree with the type and the content of each
Content(tree) == [rel \in DOMAIN tree |-> [type |-> tree[rel].type, data |-> tree[rel].data]]

\* C11: the containers of two Backup calls on the same directory with the same
\* passphrase differ in the salt and in the nonce, hence as files, and Restore
\* of either with that passphrase returns nil and leaves under destDir the
\* paths and the contents of the source, the same for both
C11_TwoBackups ==
  /\ (origin.kind = "backup" /\ oorigin.kind = "backup" /\ origin.pass = oorigin.pass) =>
        /\ SaltOf(origin.full) # SaltOf(oorigin.full)
        /\ NonceOf(origin.full) # NonceOf(oorigin.full)
        /\ out.bytes # other.bytes
  /\ (Returned /\ Source.kind = "backup" /\ rpass = Source.pass) =>
        /\ rerr = NoErr
        /\ Content(Subtree(fs, destDir)) = Content(Subtree(fs0, baseDir))

C11_Witness ==
  /\ origin.kind = "backup" /\ oorigin.kind = "backup" /\ origin.pass = oorigin.pass
  /\ out.bytes # other.bytes
  /\ Returned /\ rin = "other" /\ rpass = oorigin.pass /\ rerr = NoErr
  /\ DOMAIN Subtree(fs, destDir) # {}

\* the unpack loop from entry i on
RECURSIVE UnpackAll(_, _, _, _)
UnpackAll(f, entries, i, mask) ==
  IF i > Len(entries) THEN [err |-> NoErr, fs |-> f]
  ELSE LET r == Unpack(f, entries[i], mask) IN
       IF r.err # NoErr THEN r ELSE UnpackAll(r.fs, entries, i + 1, mask)

\* what Restore does with an opened payload when nothing else runs
RestoreAlone(f, pt, mask) ==
  LET r == MkdirAll(f, destDir, Oct(7, 0, 0), mask) IN
  IF r.err # NoErr THEN r
  ELSE IF ~pt.gz THEN [err |-> ErrGzip, fs |-> r.fs]
  ELSE UnpackAll(r.fs, pt.entries, 1, mask)

\* C13: a Backup of baseDir into outPath and a Restore of another file into
\* destDir, running together, each do what they do alone from the same start:
\* Backup archives baseDir as it was and fails in createTarGzip only when
\* baseDir was no directory, Restore returns the error and leaves the
\* filesystem that its archive gives alone
C13_Independence ==
  /\ bpayload # NoPayload =>
        \E order \in WalkOrders(Subtree(fs0, baseDir)) :
           bpayload = createTarGzip(Subtree(fs0, baseDir), order)
  /\ (bpc = "done" /\ berr \in {ErrNotExist, ErrNotDir}) => ~IsDir(fs0, baseDir)
  /\ (Returned /\ Opened) =>
        /\ rerr = RestoreAlone(fs0, payload, umask).err
        /\ fs = RestoreAlone(fs0, payload, umask).fs

\* the entries ListEntries returns with the alias
Listed(alias) ==
  {i \in 1..Len(ListEntries.out) : ListEntries.out[i].Alias = alias}

\* C14: after AddOrReplaceEntry calls alone, the config file exists once a
\* call returned nil, and ListEntries returns one entry for each alias added,
\* equal to the entry of the last call for it, and none for another alias
C14_AddOrReplace ==
  onlyAdds =>
     /\ (lastCall.op = "add" /\ lastCall.err = NoErr) => config.exists
     /\ \A alias \in Aliases :
          IF alias \in DOMAIN last
          THEN /\ Cardinality(Listed(alias)) = 1
               /\ \A i \in Listed(alias) : ListEntries.out[i] = last[alias]
          ELSE Listed(alias) = {}

\* the lines of a text that are the begin marker of alias
BlocksOf(text, alias) ==
  {i \in 1..Len(Split(text)) : TrimSpace(Split(text)[i]) = BeginOf(alias)}

\* C15: after RemoveEntry(cfg, alias) returned nil the config file holds no
\* begin marker line of alias and ListEntries returns no entry with it, and a
\* file that held no begin marker line of alias is as it was before the call
C15_Remove ==
  (lastCall.op = "remove" /\ lastCall.err = NoErr) =>
     /\ BlocksOf(config.text, lastCall.alias) = {}
     /\ Listed(lastCall.alias) = {}
     /\ BlocksOf(before.text, lastCall.alias) = {} => config = before

\* the profiles PreviewSSHConfig makes an entry for
WithHost == {name \in DOMAIN meta : meta[name].host # <<>> /\ meta[name].private # <<>>}

\* C16: two profiles of keys.json get different aliases, and when the range
\* over the profiles is done, desired holds one entry for each profile that
\* has a host and a key
C16_UniqueAliases ==
  ppc = "compare" =>
     /\ \A n1, n2 \in WithHost :
          n1 # n2 => Alias(n1, meta[n1].host) # Alias(n2, meta[n2].host)
     /\ Cardinality(DOMAIN desired) = Cardinality(WithHost)

\* the part of a stored path after its last separator, of either system
LastComponent(path) ==
  LET seps == {i \in 1..Len(path) : path[i] \in {SLASH, BACKSLASH}} IN
  IF seps = {} THEN path ELSE From(path, CHOOSE i \in seps : \A j \in seps : j <= i)

\* C17: for every profile LoadProfiles returns, a stored private or public
\* path that is not empty has become <baseDir>/keys/<file>, <file> the last
\* component of the stored path, whatever system wrote the path
C17_KeyPaths ==
  ppc \in {"desired", "compare"} =>
     \A name \in DOMAIN meta :
        LET stored == keysJson.profiles[name] IN
        /\ stored.private # <<>> =>
              meta[name].private = JoinKeys(goos, LastComponent(stored.private))
        /\ stored.public # <<>> =>
              meta[name].public = JoinKeys(goos, LastComponent(stored.public))

\* a call holds a derived key in its buffer
BackupHoldsKey == bpc \in {"seal", "create", "write"}
RestoreHoldsKey == rpc \in {"open", "mkdir", "next"}

\* the bytes of the container files
FileBytes ==
  {out.bytes[i] : i \in 1..Len(out.bytes)} \cup {other.bytes[i] : i \in 1..Len(other.bytes)}

\* C21: a Backup or Restore call holds its key from the derivation to the
\* return and not after: once the call has returned, with nil or with an
\* error, the buffer is zeroed; and the container files hold header bytes and
\* sealed bytes only, never the key
C21_KeyLifetime ==
  /\ BackupHoldsKey => (bkey # NoKey /\ bkey.pass = bpass)
  /\ RestoreHoldsKey => (key # NoKey /\ key.pass = rpass)
  /\ bpc = "done" => bkey = NoKey
  /\ rpc = "done" => key = NoKey
  /\ \A x \in FileBytes : x.kind \in {"plain", "sealed"}

C21_Witness ==
  /\ bpc = "done" /\ berr = NoErr /\ bkey = NoKey /\ bct # <<>>
  /\ rpc = "done" /\ rerr = ErrOpen /\ key = NoKey /\ ciphertext # <<>>

\* what Restore(inPath, destDir, pass) returns and leaves, as a function of
\* the bytes at inPath, on a build with ints of w bytes under the umask mask
RestoreOutcome(bytes, pass, w, mask) ==
  LET d == Decode(bytes, w) IN
  IF d.err # NoErr THEN [err |-> d.err, fs |-> fs0]
  ELSE LET k == deriveKey(pass, d.salt) IN
       IF k.err # NoErr THEN [err |-> k.err, fs |-> fs0]
       ELSE LET o == Open(seals, k.key, d.nonce, d.ciphertext) IN
            IF o.err # NoErr THEN [err |-> o.err, fs |-> fs0]
            ELSE RestoreAlone(fs0, o.pt, mask)

\* one of the 8 timestamp bytes (offsets 45 to 52) of the container changed
TimestampFlipped ==
  /\ origin.kind = "backup" /\ origin.tamper = "flip"
  /\ origin.pos \in (4 + 1 + saltLen + nonceLen + 1)..(4 + 1 + saltLen + nonceLen + 8)

\* C22: Restore of a container that differs from the one Backup wrote in a
\* timestamp byte only returns the error and leaves the tree that Restore of
\* the unchanged container returns and leaves, with the same passphrase
C22_TimestampIgnored ==
  (Returned /\ TimestampFlipped) =>
     \E w \in (IF intSize \in IntSizes THEN {intSize} ELSE IntSizes) :
        /\ rerr = RestoreOutcome(origin.full, rpass, w, umask).err
        /\ fs = RestoreOutcome(origin.full, rpass, w, umask).fs

C22_Witness ==
  /\ Returned /\ TimestampFlipped /\ rpass = origin.pass
  /\ rerr = NoErr /\ fs # fs0 /\ out.bytes # origin.full

\* the entries ListEntries finds in the config file c
ListedIn(c) == IF c.exists THEN ListFrom(Split(c.text), 1, <<>>) ELSE <<>>
AliasesIn(c) == {ListedIn(c)[i].Alias : i \in 1..Len(ListedIn(c))}

\* the aliases of the profiles of keys.json that have a host and a key
ProfileAliases == {Alias(name, meta[name].host) : name \in WithHost}

\* the aliases of the managed entries the config file had before the sync
\* that correspond to no profile
StaleAliases == {a \in AliasesIn(before) : HasPrefix(a, "git-")} \ ProfileAliases

\* C23: with prune the preview reports exactly the managed entries of the
\* config file whose alias corresponds to no profile, and after the sync
\* returned nil the file lists none of them; without prune the preview
\* reports none and after the sync the file still lists each of them
C23_Prune ==
  /\ (round = 1 /\ ppc \in {"apply", "syncfailed", "synced"}) =>
        {removes[i] : i \in 1..Len(removes)} = (IF prune THEN StaleAliases ELSE {})
  /\ (round = 1 /\ ppc = "synced") =>
        IF prune THEN AliasesIn(config) \cap StaleAliases = {}
        ELSE StaleAliases \subseteq AliasesIn(config)

\* C24: the preview right after a sync that returned nil has nothing to add
\* and nothing to remove
C24_SyncConverges ==
  (round = 2 /\ ppc = "previewed") => (adds = <<>> /\ removes = <<>>)

\* the lines of text that are exactly mark, by the place they start at
LinesOf(text, mark) ==
  {i \in 0..(Len(text) - Len(mark)) :
     /\ SubSeq(text, i + 1, i + Len(mark)) = mark
     /\ i = 0 \/ text[i] = NL
     /\ i + Len(mark) = Len(text) \/ text[i + Len(mark) + 1] = NL}

\* the managed block of alias in text: from its first begin marker line to
\* the end marker line after it, or, when that is missing, to the next begin
\* marker or the end of the text
OwnBlock(text, alias) ==
  LET begins == LinesOf(text, BeginOf(alias)) IN
  IF begins = {} THEN [found |-> FALSE, start |-> 0, stop |-> 0]
  ELSE LET start == CHOOSE i \in begins : \A j \in begins : i <= j
           ends == {j \in LinesOf(text, EndOf(alias)) : j > start}
           nexts == {k \in (start + 1)..(Len(text) - 1) : text[k] = NL /\ text[k + 1] = BEGIN}
       IN IF ends # {}
          THEN LET j == CHOOSE x \in ends : \A y \in ends : x <= y
                   stop == j + Len(EndOf(alias))
               IN [found |-> TRUE, start |-> start,
                   stop |-> IF stop < Len(text) THEN stop + 1 ELSE stop]
          ELSE [found |-> TRUE, start |-> start,
                stop |-> IF nexts = {} THEN Len(text)
                         ELSE CHOOSE k \in nexts : \A y \in nexts : k <= y]

IsSuffix(s, t) == Len(s) <= Len(t) /\ SubSeq(t, Len(t) - Len(s) + 1, Len(t)) = s

\* C25: a call of AddOrReplaceEntry or RemoveEntry for an alias that returns
\* nil leaves the text before the alias's own block and the text after it as
\* they were; when the alias has no block, the text the file had is kept and
\* a block may only follow it
C25_OwnBlockOnly ==
  (lastCall.op \in {"add", "remove"} /\ lastCall.err = NoErr) =>
     LET t0 == IF before.exists THEN before.text ELSE <<>>
         t1 == config.text
         blk == OwnBlock(t0, lastCall.alias)
         pre == Upto(t0, blk.start)
         post == From(t0, blk.stop)
     IN IF blk.found
        THEN \/ /\ IsPrefix(pre, t1) /\ IsSuffix(post, t1)
                /\ Len(pre) + Len(post) <= Len(t1)
             \/ lastCall.op = "add" /\ IsPrefix(t0, t1)
        ELSE IsPrefix(t0, t1)

\* Backup has not computed the ciphertext
BeforeCiphertext == bct = <<>>

\* C26: until Backup has computed the ciphertext the file that was at outPath
\* is as it was, also after Backup returned: a Backup that fails while
\* archiving, drawing the salt or the nonce, or deriving the key leaves it
\* byte-identical
C26_EarlyFailureKeepsFile ==
  /\ BeforeCiphertext => out = PriorFile
  /\ bpc \in {"idle", "salt", "derive", "seal", "create"} => out = PriorFile
  /\ (bpc = "done" /\ BeforeCiphertext) => berr # NoErr

C26_Witness ==
  /\ bpc = "done" /\ berr \notin {NoErr, ErrNotExist, ErrNotDir, ErrRand}
  /\ bsalt # <<>> /\ BeforeCiphertext
  /\ out = PriorFile

\* C27: after calls of Init and Add that all returned nil, keys.json parses
\* and holds, for every name that was added, the algo, email and host of the
\* last Add of the name and key paths that LoadProfiles resolves to the paths
\* that Add returned
C27_ProfilesPersist ==
  (lastAdd.op \in {"init", "add"} /\ ~lastAdd.failed) =>
     \A name \in DOMAIN added :
        /\ keysJson.exists /\ ~corrupt
        /\ name \in DOMAIN keysJson.profiles
        /\ Normalized(goos, keysJson)[name] = added[name]

====
